---- MODULE Spec2Model ----
(***************************************************************************)
(* Dedicated stream provisioning (app/stream_provisioning/service.py):     *)
(* the port pool, the dedicated_streams table and the request handlers of  *)
(* StreamProvisioningService, each handler split at its awaits.  Every     *)
(* request runs on its own AsyncSession (database.get_db); the database is *)
(* modelled as the committed rows plus, per request, the uncommitted work  *)
(* of its transaction (READ COMMITTED: a statement sees committed rows and *)
(* the transaction's own writes; a row written by an open transaction is   *)
(* locked until that transaction ends).                                    *)
(*                                                                         *)
(* Specifications:                                                         *)
(*   Spec      concurrent Provision, Suspend and Terminate requests and    *)
(*             process crashes; no statement raises a database error.      *)
(*   SpecSeq   one request at a time, its arguments and result kept in its *)
(*             slot; statements and commits may raise, the process may die.*)
(*   SpecCalls SpecSeq without process crashes.                            *)
(*   SpecAlloc concurrent callers of allocate_port alone.                  *)
(*   SpecOnce  one concurrent provision_stream call per user.              *)
(*   SpecInit  concurrent initialize_port_pool and allocate_port calls on  *)
(*             an empty, partial or complete port_pool table.              *)
(*   SpecApi   one request at a time to the service or through the routes.   *)
(*   SpecUpdate update_stream of the streams API, one request at a time.    *)
(*   SpecStats get_stream_stats on any sessions and monitoring samples.     *)
(*   SpecServers Provision with any shoutcast_servers table.                *)
(*   SpecResume Provision and Suspend called again and again, fairly.        *)
(*   SpecClient the operations of ShoutcastClient against a server that      *)
(*             answers, refuses, times out or raises.                        *)
(*   SpecSecret the password generators, character by character.          *)
(*   SpecPool  allocate_port and release_port alone, one call at a time.  *)
(*   SpecRetry repeated Provision calls under fairness: the owner of a     *)
(*             stream retries and the streaming server accepts.            *)
(***************************************************************************)
EXTENDS Integers, FiniteSets, Sequences, TLC

\* ------------------------------------------------------------------ bounds
NumPorts == 2          \* size of the port pool of the model
NumUsers == 3          \* distinct users
NumProcs == 3          \* slots for request handlers
NumCallers == 2        \* users that call under Spec and SpecSeq
MaxConcurrent == 2     \* handlers in flight at once under Spec
MaxStreams == 2        \* stream ids handed out per behaviour
NumSecrets == 2        \* distinct values generate_secure_password can return
NumSessions == 2       \* stream_sessions rows of one stream
MaxDay == 2            \* the days before now that rows are dated at, and the widest window
MaxPeak == 1           \* the highest peak_listeners of a session
ManySamples == 60      \* stream_monitoring rows recorded on one day, when there are many
NumServers == 2        \* shoutcast_servers rows

\* --------------------------------------------------------------- constants
port_range_start == 8100
NULL == 0
Now == 1

Ports == port_range_start .. (port_range_start + NumPorts - 1)
Users == 1 .. NumUsers
Callers == 1 .. NumCallers
Procs == 1 .. NumProcs
StreamIds == 1 .. MaxStreams

\* The values of generate_secure_password.  Where the handlers' results are not
\* observed the secrets are not told apart.
Secrets(obs) == IF obs THEN 1 .. NumSecrets ELSE {1}

PROVISIONING == "provisioning"
ACTIVE == "active"
SUSPENDED == "suspended"
TERMINATED == "terminated"
MAINTENANCE == "maintenance"
StreamStatus == {PROVISIONING, ACTIVE, SUSPENDED, TERMINATED, MAINTENANCE}

VARIABLES
    ports,      \* committed port_pool rows, by port number
    streams,    \* committed dedicated_streams rows, by id
    nextId,     \* the next fresh stream id (uuid4 never repeats)
    procs,      \* per request handler: position and local variables
    crashed     \* the process has died and no request has arrived since

vars == <<ports, streams, nextId, procs, crashed>>

\* A free port_pool row, as initialize_port_pool creates it.
FreePort == [is_allocated |-> FALSE, allocated_at |-> NULL,
             allocated_to_user_id |-> NULL, allocated_to_stream_id |-> NULL]

\* A handler that runs nothing.
NoResult == [kind |-> "none", id |-> NULL, port |-> NULL, why |-> "none"]
NoCall == [res |-> NoResult, before |-> {}]
\* A password of no character.  A password is kept as its length, the classes of
\* its characters but the last, and the class of its last character.
NoSecret == [length |-> 0, body |-> {}, last |-> "none"]
\* No stream_updated event has been logged.
NoEvent == [logged |-> FALSE, updated_fields |-> {}, requires_restart |-> FALSE]
\* No allocate / release / allocate sequence is being observed.
NoTrip == [calls |-> 0, pool |-> << >>, port |-> NULL, user |-> NULL]
IdleProc == [pc |-> "idle", op |-> "none", user_id |-> NULL, stream_id |-> NULL,
             port |-> NULL, status |-> "none", loaded |-> FreePort,
             source_password |-> NULL, admin_password |-> NULL, outcome |-> "none",
             res |-> NoResult, before |-> {}, prev |-> NoCall, trip |-> NoTrip,
             secret |-> NoSecret, response |-> "none", text |-> "unset",
             session |-> "none", update_data |-> << >>, event |-> NoEvent,
             tasks |-> << >>, days |-> 0, stats |-> << >>,
             servers |-> << >>, target |-> NULL]

Init ==
    /\ ports = [p \in Ports |-> FreePort]
    /\ streams = << >>
    /\ nextId = 1
    /\ procs = [self \in Procs |-> IdleProc]
    /\ crashed = FALSE


\* ----------------------------------------------------- the handlers' state
Set(self, f) == [procs EXCEPT ![self] = f]
Idle(self) == procs[self].pc \in {"idle", "done"}
Returned(self, op) == procs[self].pc = "done" /\ procs[self].op = op

\* A handler returns.  An observed handler (obs) keeps what it was called with and
\* what it returned readable in its slot; otherwise the slot is simply free again.
Return(me, r, obs) ==
    IF obs
    THEN [IdleProc EXCEPT !.pc = "done", !.op = me.op, !.user_id = me.user_id,
                          !.outcome = me.outcome, !.trip = me.trip,
                          !.secret = me.secret, !.response = me.response,
                          !.text = me.text, !.session = me.session,
                          !.update_data = me.update_data, !.event = me.event,
                          !.tasks = me.tasks, !.days = me.days, !.stats = me.stats,
                          !.servers = me.servers, !.target = me.target,
                          !.stream_id = IF me.op \in {"update_stream", "get_stream_stats"}
                                        THEN me.stream_id ELSE NULL,
                          !.res = r, !.before = me.before, !.prev = me.prev]
    ELSE IdleProc
ReturnNone(me, why, obs) ==
    Return(me, [kind |-> "none", id |-> NULL, port |-> NULL, why |-> why], obs)
ReturnStream(me, id, port, why, obs) ==
    Return(me, [kind |-> "stream", id |-> id, port |-> port, why |-> why], obs)
ReturnBool(me, b, why, obs) ==
    Return(me, [kind |-> IF b THEN "true" ELSE "false", id |-> NULL, port |-> NULL,
                why |-> why], obs)
ReturnPort(me, port, obs) ==
    Return([me EXCEPT !.trip.port = IF me.trip.calls = 1 THEN port ELSE @],
           [kind |-> "port", id |-> NULL, port |-> port, why |-> "allocated"], obs)

\* ------------------------------------------------------ rows and queries
\* select(PortPool).where(is_allocated == False).order_by(port).limit(1)
FreePorts(pool) == {p \in DOMAIN pool : ~pool[p].is_allocated}
\* (Mutation: the select orders the free ports downwards.)
HighestFreePort(pool) ==
    IF FreePorts(pool) = {} THEN NULL
    ELSE CHOOSE p \in FreePorts(pool) : \A q \in FreePorts(pool) : p >= q
\* (Mutation: with no free port the select still yields the first port.)
LowestPortAnyway(pool) ==
    IF FreePorts(pool) = {} THEN port_range_start
    ELSE CHOOSE p \in FreePorts(pool) : \A q \in FreePorts(pool) : p <= q
LowestFreePort(pool) ==
    IF FreePorts(pool) = {} THEN NULL
    ELSE CHOOSE p \in FreePorts(pool) : \A q \in FreePorts(pool) : p <= q

\* allocate_port's assignments to the row it loaded.
\* (Mutation: the row gets its user but is not marked allocated.)
AllocatedRowUnmarked(row, user_id) ==
    [row EXCEPT !.allocated_to_user_id = user_id]
AllocatedRow(row, user_id) ==
    [row EXCEPT !.is_allocated = TRUE, !.allocated_at = Now,
                !.allocated_to_user_id = user_id]

\* release_port's assignments to the row it loaded.
\* (Mutations: the release stamps the row; the release keeps the owning user.)
ReleasedRowStamped(row) ==
    [row EXCEPT !.is_allocated = FALSE, !.allocated_at = Now,
                !.allocated_to_user_id = NULL, !.allocated_to_stream_id = NULL]
ReleasedRowKeepsUser(row) ==
    [row EXCEPT !.is_allocated = FALSE, !.allocated_at = NULL,
                !.allocated_to_stream_id = NULL]
ReleasedRow(row) ==
    [row EXCEPT !.is_allocated = FALSE, !.allocated_at = NULL,
                !.allocated_to_user_id = NULL, !.allocated_to_stream_id = NULL]

\* The unit of work writes the columns whose value differs from the loaded one.
Flushed(current, loaded, assigned) ==
    [c \in DOMAIN current |-> IF assigned[c] # loaded[c] THEN assigned[c] ELSE current[c]]

\* provision_stream's lookup of the caller's stream.
\* (Mutation: the lookup matches active streams only.)
ExistingStatusesActiveOnly == {ACTIVE}
ExistingStatuses == {PROVISIONING, ACTIVE}
ExistingStreams(user_id) ==
    {s \in DOMAIN streams :
        streams[s].user_id = user_id /\ streams[s].status \in ExistingStatuses}

\* What _configure_shoutcast_stream can meet: no single active primary server
\* (lines 224-236, no call is made), create_stream called and failed (refused,
\* timed out or raised), create_stream called and accepted.
ConfigureOutcomes == {"no_server", "refused", "configured"}

\* lines 192-198: the status provision_stream assigns after the configuration.
\* (Mutation: the stream is activated whatever the configuration answered.)
ConfiguredStatusAlways(outcome) == ACTIVE
ConfiguredStatus(outcome) == IF outcome = "configured" THEN ACTIVE ELSE PROVISIONING

\* The DedicatedStream row provision_stream builds and commits.
\* (Mutation: the activation time is stamped on every new row.)
\* The row has the column default config_version = 1 and no last_config_update
\* unless _configure_shoutcast_stream succeeded (lines 260-261), which is when the
\* status is ACTIVE (lines 193-196).
\* (Mutation: the configuration is stamped on every new row.)
ConfigStampAlways(status) == [config_version |-> 2, last_config_update |-> Now]
ConfigStamp(status) ==
    IF status = ACTIVE THEN [config_version |-> 2, last_config_update |-> Now]
    ELSE [config_version |-> 1, last_config_update |-> NULL]
NewStreamStamped(user_id, port, status, source_password, admin_password) ==
    [user_id |-> user_id, port |-> port, status |-> status, is_live |-> FALSE,
     source_password |-> source_password, admin_password |-> admin_password,
     activated_at |-> Now,
     config_version |-> ConfigStamp(status).config_version,
     last_config_update |-> ConfigStamp(status).last_config_update]
NewStream(user_id, port, status, source_password, admin_password) ==
    [user_id |-> user_id, port |-> port, status |-> status, is_live |-> FALSE,
     source_password |-> source_password, admin_password |-> admin_password,
     activated_at |-> IF status = ACTIVE THEN Now ELSE NULL,
     config_version |-> ConfigStamp(status).config_version,
     last_config_update |-> ConfigStamp(status).last_config_update]

\* The stream row a handler loaded: the committed row, with the status it read.
LoadedStream(me) == [streams[me.stream_id] EXCEPT !.status = me.status]

\* suspend_stream's assignments to the row it loaded (lines 314-315).
\* (Mutation: suspending also takes the stream's port away.)
SuspendedRowWithoutPort(row) ==
    [row EXCEPT !.status = SUSPENDED, !.is_live = FALSE, !.port = NULL]
SuspendedRow(row) == [row EXCEPT !.status = SUSPENDED, !.is_live = FALSE]

\* terminate_stream's assignments to the row it loaded (lines 345-346).
TerminatedRow(row) == [row EXCEPT !.status = TERMINATED, !.is_live = FALSE]

\* dedicated_streams.port is unique: a committed row already holds the port.
PortTaken(port) == \E s \in DOMAIN streams : streams[s].port = port

\* Another open transaction inserted a row with this port (the insert waits for it).
InsertPending(port, self) ==
    \E q \in Procs \ {self} :
        /\ procs[q].op = "provision"
        /\ procs[q].pc \in {"prov_assoc", "prov_configure", "prov_commit"}
        /\ procs[q].port = port

\* Another open transaction updated this port_pool row (its lock).
PortLocked(port, self) ==
    \E q \in Procs \ {self} :
        /\ procs[q].op = "provision"
        /\ procs[q].pc \in {"prov_configure", "prov_commit"}
        /\ procs[q].port = port

\* Another open transaction updated this dedicated_streams row (its lock).
StreamLocked(id, self) ==
    \E q \in Procs \ {self} :
        /\ procs[q].op = "terminate"
        /\ procs[q].pc = "rel_commit"
        /\ procs[q].stream_id = id
        /\ procs[q].status # TERMINATED

InFlight == {q \in Procs : ~Idle(q)}
AllocatedPorts == {p \in Ports : ports[p].is_allocated}

\* --------------------------------------------------------- allocate_port
\* line 70: the select of the lowest free port.
AllocSelect(self, obs) ==
    /\ procs[self].pc = "alloc_select"
    /\ LET p == LowestFreePort(ports) IN
         procs' = Set(self,
            IF p = NULL
            THEN ReturnNone(procs[self], "no_ports", obs)
            ELSE [procs[self] EXCEPT !.pc = "alloc_commit", !.port = p,
                                     !.loaded = ports[p]])
    /\ UNCHANGED <<ports, streams, nextId, crashed>>

\* lines 83-90: the row is marked and committed; the port is returned.
AllocCommit(self, obs) ==
    /\ procs[self].pc = "alloc_commit"
    /\ LET p == procs[self].port IN
        /\ ~PortLocked(p, self)
        /\ ports' = [ports EXCEPT ![p] =
              Flushed(ports[p], procs[self].loaded,
                      AllocatedRow(procs[self].loaded, procs[self].user_id))]
        /\ procs' = Set(self,
              IF procs[self].op = "allocate"
              THEN ReturnPort(procs[self], p, obs)
              ELSE [procs[self] EXCEPT !.pc = "prov_flush"])
    /\ UNCHANGED <<streams, nextId, crashed>>

\* lines 92-95: the commit raises; allocate_port rolls back and returns None.
AllocCommitFail(self, obs) ==
    /\ procs[self].pc = "alloc_commit"
    /\ procs' = Set(self, ReturnNone(procs[self], "alloc_failed", obs))
    /\ UNCHANGED <<ports, streams, nextId, crashed>>


\* ------------------------------------------------------ provision_stream
\* lines 142-157: the lookup of the caller's stream.  One row: it is returned.
\* Several rows: scalar_one_or_none raises and the handler returns None (no port
\* is in its locals yet).  None: the handler goes on to allocate_port.
Provision(self, user_id, obs) ==
    /\ Idle(self)
    /\ LET found == ExistingStreams(user_id)
           last == procs[self]
           me == [IdleProc EXCEPT
                    !.op = "provision", !.user_id = user_id,
                    !.before = IF obs THEN AllocatedPorts ELSE {},
                    !.prev = IF Returned(self, "provision") /\ last.user_id = user_id
                             THEN [res |-> last.res, before |-> last.before]
                             ELSE NoCall]
       IN procs' = [procs EXCEPT ![self] =
            IF Cardinality(found) > 1
            THEN ReturnNone(me, "error", obs)
            ELSE IF found # {}
            THEN LET s == CHOOSE s \in found : TRUE IN
                 ReturnStream(me, s, streams[s].port, "existing", obs)
            ELSE [me EXCEPT !.pc = "alloc_select"]]
    /\ crashed' = FALSE
    /\ UNCHANGED <<ports, streams, nextId>>

\* lines 163-182: the passwords are generated and the stream row is inserted (flush).  A committed row that holds
\* the same port violates the unique constraint: the handler rolls back and goes
\* on to release the port (lines 206-212).
ProvFlush(self, source_password, admin_password) ==
    /\ procs[self].pc = "prov_flush"
    /\ ~InsertPending(procs[self].port, self)
    /\ nextId <= MaxStreams
    /\ IF PortTaken(procs[self].port)
       THEN /\ procs' = Set(self, [procs[self] EXCEPT !.pc = "rel_select",
                                                      !.status = "IntegrityError"])
            /\ UNCHANGED nextId
       ELSE /\ procs' = Set(self, [procs[self] EXCEPT !.pc = "prov_assoc",
                                                      !.stream_id = nextId,
                                                      !.status = PROVISIONING,
                                                      !.source_password = source_password,
                                                      !.admin_password = admin_password])
            /\ nextId' = nextId + 1
    /\ UNCHANGED <<ports, streams, crashed>>

\* lines 185-189: the update of the port row with the stream's id (uncommitted).
ProvAssoc(self) ==
    /\ procs[self].pc = "prov_assoc"
    /\ ~PortLocked(procs[self].port, self)
    /\ procs' = Set(self, [procs[self] EXCEPT !.pc = "prov_configure"])
    /\ UNCHANGED <<ports, streams, nextId, crashed>>

\* lines 192-199: _configure_shoutcast_stream answers True or False (no primary
\* server, create_stream refused, timed out or raised: lines 233-269).
ProvConfigure(self, outcome) ==
    /\ procs[self].pc = "prov_configure"
    /\ procs' = Set(self, [procs[self] EXCEPT
                              !.pc = "prov_commit",
                              !.outcome = outcome,
                              !.status = ConfiguredStatus(outcome)])
    /\ UNCHANGED <<ports, streams, nextId, crashed>>

\* The shoutcast_servers table: by server id, the flags of the row.
ServerIds == 1 .. NumServers
ServerTables ==
    UNION {[S -> [is_active : BOOLEAN, is_primary : BOOLEAN]] : S \in SUBSET ServerIds}
\* lines 224-230: the servers the select matches.
\* (Mutation: the select does not ask for an active server.)
PrimaryServersAnyState(servers) == {i \in DOMAIN servers : servers[i].is_primary}
PrimaryServers(servers) ==
    {i \in DOMAIN servers : servers[i].is_active /\ servers[i].is_primary}

\* lines 192-199 with 222-269, the server table told apart: the select of the
\* active primary server (none: False; several: scalar_one_or_none raises, False),
\* then create_stream on that server, which answers `success`.
ConfigureShoutcast(self, servers, success) ==
    /\ procs[self].pc = "prov_configure"
    /\ LET found == PrimaryServers(servers)
           one == Cardinality(found) = 1
           outcome == IF ~one THEN "no_server"
                      ELSE IF success THEN "configured" ELSE "refused"
       IN procs' = Set(self, [procs[self] EXCEPT
                                 !.pc = "prov_commit",
                                 !.outcome = outcome,
                                 !.status = ConfiguredStatus(outcome),
                                 !.servers = servers,
                                 !.target = IF one THEN CHOOSE i \in found : TRUE
                                            ELSE NULL])
    /\ UNCHANGED <<ports, streams, nextId, crashed>>

\* lines 201-204: the commit of the stream row and of the port's association.
ProvCommit(self, obs) ==
    /\ procs[self].pc = "prov_commit"
    /\ LET me == procs[self] IN
        /\ streams' = streams @@
              (me.stream_id :> NewStream(me.user_id, me.port, me.status,
                                         me.source_password, me.admin_password))
        /\ ports' = [ports EXCEPT ![me.port].allocated_to_stream_id = me.stream_id]
        /\ procs' = Set(self, ReturnStream(me, me.stream_id, me.port, "created", obs))
    /\ UNCHANGED <<nextId, crashed>>

\* lines 206-212: the flush, the update or the commit raises a database error;
\* the handler rolls its transaction back and goes on to release the port.
ProvFail(self) ==
    /\ procs[self].pc \in {"prov_flush", "prov_assoc", "prov_commit"}
    /\ procs' = Set(self, [procs[self] EXCEPT !.pc = "rel_select", !.stream_id = NULL,
                                              !.status = "DatabaseError"])
    /\ UNCHANGED <<ports, streams, nextId, crashed>>

\* ---------------------------------------------------------- release_port
\* line 107: what release_port answers when the port has no row.
\* (Mutation: the missing row counts as released.)
MissingPortReleased == TRUE
MissingPortResult == FALSE

\* lines 100-107: the select of the port row.  Under terminate_stream the select
\* first flushes the stream's new status (uncommitted).
RelSelect(self, obs) ==
    /\ procs[self].pc = "rel_select"
    /\ procs[self].op = "terminate" /\ procs[self].status # TERMINATED
          => ~StreamLocked(procs[self].stream_id, self)
    /\ procs' = Set(self,
          IF procs[self].port \in DOMAIN ports
          THEN [procs[self] EXCEPT !.pc = "rel_commit",
                                   !.loaded = ports[procs[self].port]]
          ELSE ReturnBool(procs[self], MissingPortResult, "port_not_found", obs))
    /\ UNCHANGED <<ports, streams, nextId, crashed>>

\* The value the caller of release_port returns once release_port has returned:
\* provision_stream returns None (line 214); terminate_stream commits and
\* returns True whatever release_port answered (lines 349-355).
AfterRelease(me, released, obs) ==
    CASE me.op = "provision" ->
            Return(me, [kind |-> "none", id |-> NULL, port |-> me.port,
                        why |-> IF released THEN me.status ELSE "release_failed"], obs)
      [] me.op = "terminate" ->
            ReturnBool(me, TRUE, IF released THEN "terminated" ELSE "release_failed", obs)
      [] OTHER ->
            Return(me, [kind |-> IF released THEN "true" ELSE "false", id |-> NULL,
                        port |-> me.port, why |-> "released"], obs)

\* lines 110-118: the row is cleared and committed.  Under terminate_stream the
\* same commit carries the stream's status.
RelCommit(self, obs) ==
    /\ procs[self].pc = "rel_commit"
    /\ LET me == procs[self]
           cleared == Flushed(ports[me.port], me.loaded, ReleasedRow(me.loaded))
       IN
        /\ cleared # ports[me.port] => ~PortLocked(me.port, self)
        /\ ports' = [ports EXCEPT ![me.port] = cleared]
        /\ streams' =
              IF me.op = "terminate"
              THEN [streams EXCEPT ![me.stream_id] =
                       Flushed(streams[me.stream_id], LoadedStream(me),
                               TerminatedRow(LoadedStream(me)))]
              ELSE streams
        /\ procs' = Set(self, AfterRelease(procs[self], TRUE, obs))
    /\ UNCHANGED <<nextId, crashed>>

\* lines 120-123: the commit raises; release_port rolls the session back (the
\* stream's uncommitted status with it) and returns False.
RelCommitFail(self, obs) ==
    /\ procs[self].pc = "rel_commit"
    /\ procs' = Set(self, AfterRelease(procs[self], FALSE, obs))
    /\ UNCHANGED <<ports, streams, nextId, crashed>>


\* -------------------------------------------------------- suspend_stream
\* lines 304-315: the select of the stream by id.
Suspend(self, id, obs) ==
    /\ Idle(self)
    /\ LET me == [IdleProc EXCEPT !.op = "suspend", !.stream_id = id] IN
       procs' = [procs EXCEPT ![self] =
          IF id \in DOMAIN streams
          THEN [me EXCEPT !.pc = "susp_commit",
                          !.status = streams[id].status]
          ELSE ReturnBool(me, FALSE, "not_found", obs)]
    /\ crashed' = FALSE
    /\ UNCHANGED <<ports, streams, nextId>>

\* lines 314-321: status and liveness are assigned and committed.
SuspCommit(self, obs) ==
    /\ procs[self].pc = "susp_commit"
    /\ LET me == procs[self] IN
        /\ ~StreamLocked(me.stream_id, self)
        /\ streams' = [streams EXCEPT ![me.stream_id] =
                          Flushed(streams[me.stream_id], LoadedStream(me),
                                  SuspendedRow(LoadedStream(me)))]
        /\ procs' = Set(self, ReturnBool(me, TRUE, "suspended", obs))
    /\ UNCHANGED <<ports, nextId, crashed>>

\* lines 323-326: the commit raises; rollback, False.
SuspCommitFail(self, obs) ==
    /\ procs[self].pc = "susp_commit"
    /\ procs' = Set(self, ReturnBool(procs[self], FALSE, "failed", obs))
    /\ UNCHANGED <<ports, streams, nextId, crashed>>

\* ------------------------------------------------------ terminate_stream
\* lines 335-349: the select of the stream by id; status and liveness are
\* assigned and release_port is called with the stream's port.
Terminate(self, id, obs) ==
    /\ Idle(self)
    /\ LET me == [IdleProc EXCEPT !.op = "terminate", !.stream_id = id] IN
       procs' = [procs EXCEPT ![self] =
          IF id \in DOMAIN streams
          THEN [me EXCEPT !.pc = "rel_select",
                          !.status = streams[id].status, !.port = streams[id].port]
          ELSE ReturnBool(me, FALSE, "not_found", obs)]
    /\ crashed' = FALSE
    /\ UNCHANGED <<ports, streams, nextId>>

\* ------------------------------------------- the pool's operations alone
\* allocate_port called on its own (lines 66-95).  An allocate, the release of
\* the port it returned and the allocate that follows are observed together: the
\* slot keeps the pool as it was before the first of them.
Allocate(self, user_id) ==
    /\ Idle(self)
    /\ LET last == procs[self] IN
       procs' = Set(self, [IdleProc EXCEPT
            !.pc = "alloc_select", !.op = "allocate", !.user_id = user_id,
            !.trip = IF Returned(self, "release") /\ last.trip.calls = 2
                        /\ last.res.kind = "true"
                     THEN [last.trip EXCEPT !.calls = 3]
                     ELSE [calls |-> 1, pool |-> ports, port |-> NULL,
                           user |-> user_id]])
    /\ crashed' = FALSE
    /\ UNCHANGED <<ports, streams, nextId>>

\* release_port called on its own (lines 97-123).
Release(self, port) ==
    /\ Idle(self)
    /\ LET last == procs[self] IN
       procs' = Set(self, [IdleProc EXCEPT
            !.pc = "rel_select", !.op = "release", !.port = port,
            !.before = AllocatedPorts,
            !.trip = IF Returned(self, "allocate") /\ last.trip.calls = 1
                        /\ last.res.kind = "port" /\ last.res.port = port
                     THEN [last.trip EXCEPT !.calls = 2]
                     ELSE NoTrip])
    /\ crashed' = FALSE
    /\ UNCHANGED <<ports, streams, nextId>>

\* ------------------------------------------- PUT /api/v1/streams/{stream_id}
\* The user_streams table (stream_models.UserStream) and update_stream
\* (streams/routes.py 212-300).  Under SpecUpdate the variable streams holds the
\* committed user_streams rows.
PENDING == "pending"
READY == "ready"
INACTIVE == "inactive"
ERROR == "error"
DELETED == "deleted"
UserStreamStatus == {PENDING, READY, ACTIVE, INACTIVE, ERROR, SUSPENDED, DELETED}

\* The session the route works on: database.get_db yields an AsyncSession; the
\* route declares, and a dependency override injects, a synchronous Session.
Sessions == {"AsyncSession", "Session"}

\* The fields of StreamUpdate the model tells apart and the values of a request.
Bitrates == {64, 128}
UpdateValues ==
    [bitrate |-> Bitrates, max_listeners |-> {200}, icecast_config |-> {2},
     genre |-> {2}]
\* stream_update.dict(exclude_unset=True): the fields the request has set.
UpdateData ==
    UNION {[S -> UNION {UpdateValues[f] : f \in S}] : S \in SUBSET DOMAIN UpdateValues}
ValidUpdateData == {d \in UpdateData : \A f \in DOMAIN d : d[f] \in UpdateValues[f]}

UserStreamRow(user_id, status, bitrate) ==
    [user_id |-> user_id, status |-> status, bitrate |-> bitrate,
     max_listeners |-> 100, format |-> "mp3", icecast_config |-> 1, genre |-> 1,
     updated_at |-> NULL]

\* lines 248-253: a critical field is set in the request to another value than the
\* row's.
\* (Mutation: every critical field that is set counts.)
critical_fields == {"bitrate", "max_listeners", "format", "icecast_config"}
requires_restart_if_set(row, update_data) ==
    \E field \in critical_fields : field \in DOMAIN update_data
requires_restart(row, update_data) ==
    \E field \in critical_fields :
        field \in DOMAIN update_data /\ row[field] # update_data[field]

\* lines 256-259: setattr for every field of the request, and updated_at.
Updated(row, update_data) ==
    [c \in DOMAIN row |->
        IF c \in DOMAIN update_data THEN update_data[c]
        ELSE IF c = "updated_at" THEN Now ELSE row[c]]

\* lines 279-290: the background task that is queued, if any.
TaskFor(restart, status) ==
    IF restart /\ status = ACTIVE THEN <<"restart_stream_on_cpp_service">>
    ELSE IF status \in {READY, ACTIVE} THEN <<"update_stream_config_on_cpp_service">>
    ELSE << >>

HttpError(code, why) == [kind |-> code, id |-> NULL, port |-> NULL, why |-> why]

\* lines 226-259: the query (an AsyncSession has no attribute query: the request
\* ends in an unhandled AttributeError, answered 500), 404 for a stream that is
\* missing, of another user or deleted, 409 for one in error or suspended;
\* otherwise the fields are assigned.
UpdateStream(self, session, id, user_id, update_data) ==
    /\ Idle(self)
    /\ LET me == [IdleProc EXCEPT !.op = "update_stream", !.session = session,
                                  !.user_id = user_id, !.stream_id = id,
                                  !.update_data = update_data]
           found == /\ id \in DOMAIN streams
                    /\ streams[id].user_id = user_id
                    /\ streams[id].status # DELETED
       IN procs' = Set(self,
            IF session = "AsyncSession"
            THEN Return(me, HttpError("500", "AttributeError"), TRUE)
            ELSE IF ~found
            THEN Return(me, HttpError("404", "not_found"), TRUE)
            ELSE IF streams[id].status \in {ERROR, SUSPENDED}
            THEN Return(me, HttpError("409", "conflict"), TRUE)
            ELSE [me EXCEPT !.pc = "upd_commit", !.before = streams[id],
                            !.loaded = Updated(streams[id], update_data),
                            !.status = IF requires_restart(streams[id], update_data)
                                       THEN "restart" ELSE "no_restart"])
    /\ crashed' = FALSE
    /\ UNCHANGED <<ports, streams, nextId>>

\* line 262: the first commit writes the row.
UpdCommit(self) ==
    /\ procs[self].pc = "upd_commit"
    /\ streams' = [streams EXCEPT ![procs[self].stream_id] = procs[self].loaded]
    /\ procs' = Set(self, [procs[self] EXCEPT !.pc = "upd_event"])
    /\ UNCHANGED <<ports, nextId, crashed>>

\* lines 266-293: the event is added and committed, the background task is
\* queued and the stream is returned.
UpdEvent(self) ==
    /\ procs[self].pc = "upd_event"
    /\ LET me == procs[self]
           restart == me.status = "restart"
           done == [me EXCEPT
                      !.event = [logged |-> TRUE,
                                 updated_fields |-> DOMAIN me.update_data,
                                 requires_restart |-> restart],
                      !.tasks = TaskFor(restart, streams[me.stream_id].status)]
       IN procs' = Set(self, Return(done, [kind |-> "200", id |-> me.stream_id,
                                           port |-> NULL, why |-> "updated"], TRUE))
    /\ UNCHANGED <<ports, streams, nextId, crashed>>

\* lines 295-300: a commit raises; rollback and 500.  What the first commit wrote
\* stays.
UpdFail(self) ==
    /\ procs[self].pc \in {"upd_commit", "upd_event"}
    /\ procs' = Set(self, Return(procs[self], HttpError("500", "DatabaseError"), TRUE))
    /\ UNCHANGED <<ports, streams, nextId, crashed>>

\* lines 570-579: the queued task runs after the response; its body is empty.
BackgroundTask(self) ==
    /\ procs[self].pc = "done"
    /\ procs[self].tasks # << >>
    /\ procs' = Set(self, [procs[self] EXCEPT !.tasks = Tail(@),
                                              !.outcome = Head(procs[self].tasks)])
    /\ UNCHANGED <<ports, streams, nextId, crashed>>

\* ------------------------------------------------------- get_stream_stats
\* Under SpecStats a stream row carries its stream_sessions rows (sessions: by
\* session id, the day it started and its peak) and its stream_monitoring rows
\* (monitoring_data: by day, the number of samples recorded that day).  Days
\* are counted backwards from now: today is day 0.
SessionIds == 1 .. NumSessions
Days == 0 .. MaxDay
Peaks == 0 .. MaxPeak
SessionRows == [started_at : Days, peak_listeners : Peaks]
SessionTables == UNION {[S -> SessionRows] : S \in SUBSET SessionIds}
MonitoringTables == [Days -> {0, 1, ManySamples}]

\* .limit(100), line 407.
recent_limit == 100

\* started_at >= start_date, with start_date = utcnow() - timedelta(days).
InWindow(day, days) == day <= days

\* func.count(StreamSession.id) and func.max(StreamSession.peak_listeners) over
\* the sessions in the window; max over no row is NULL, reported as 0.
total_sessions(sessions, days) ==
    Cardinality({i \in DOMAIN sessions : InWindow(sessions[i].started_at, days)})
\* (Mutation: the maximum is taken over all sessions of the stream.)
peak_of_all(sessions, days) ==
    LET peaks == {sessions[i].peak_listeners : i \in DOMAIN sessions}
    IN IF peaks = {} THEN 0 ELSE CHOOSE m \in peaks : \A n \in peaks : m >= n
peak_listeners(sessions, days) ==
    LET peaks == {sessions[i].peak_listeners :
                     i \in {j \in DOMAIN sessions : InWindow(sessions[j].started_at, days)}}
    IN IF peaks = {} THEN 0 ELSE CHOOSE m \in peaks : \A n \in peaks : m >= n

\* The recorded_at of the samples of the days from `day` back to the start of
\* the window, in the order of order_by(recorded_at.desc()): newest first.
RECURSIVE NewestFirst(_, _, _)
NewestFirst(monitoring_data, day, days) ==
    IF day > days \/ day \notin DOMAIN monitoring_data THEN << >>
    ELSE [i \in 1 .. monitoring_data[day] |-> day]
            \o NewestFirst(monitoring_data, day + 1, days)
\* .limit(100)
recent_monitoring(monitoring_data, days) ==
    LET all == NewestFirst(monitoring_data, 0, days)
    IN SubSeq(all, 1, IF Len(all) < recent_limit THEN Len(all) ELSE recent_limit)

\* get_stream_stats (lines 362-444): {} for an id without row, otherwise the
\* statistics of the stream's sessions and samples of the last `days` days.
GetStreamStats(self, id, days) ==
    /\ Idle(self)
    /\ LET me == [IdleProc EXCEPT !.op = "get_stream_stats", !.stream_id = id,
                                  !.days = days]
       IN procs' = Set(self,
            IF id \notin DOMAIN streams
            THEN Return(me, [kind |-> "empty", id |-> NULL, port |-> NULL,
                             why |-> "not_found"], TRUE)
            ELSE Return([me EXCEPT !.stats =
                            [total_sessions |-> total_sessions(streams[id].sessions, days),
                             peak_listeners |-> peak_listeners(streams[id].sessions, days),
                             recent_monitoring |->
                                 recent_monitoring(streams[id].monitoring_data, days)]],
                        [kind |-> "stats", id |-> id, port |-> NULL, why |-> "read"],
                        TRUE))
    /\ crashed' = FALSE
    /\ UNCHANGED <<ports, streams, nextId>>

\* ------------------------------------------------------------- the routes
\* get_user_stream (service.py 271-294): the caller's stream that is not
\* terminated; None if there is none, and None if there are several
\* (scalar_one_or_none raises, the exception is caught).
\* (Mutation: the lookup does not exclude terminated streams.)
get_any_stream(user_id) ==
    LET found == {s \in DOMAIN streams : streams[s].user_id = user_id}
    IN IF Cardinality(found) = 1 THEN CHOOSE s \in found : TRUE ELSE NULL
get_user_stream(user_id) ==
    LET found == {s \in DOMAIN streams : /\ streams[s].user_id = user_id
                                         /\ streams[s].status # TERMINATED}
    IN IF Cardinality(found) = 1 THEN CHOOSE s \in found : TRUE ELSE NULL

\* HTTPException(status_code=404).
NotFound404 == [kind |-> "404", id |-> NULL, port |-> NULL, why |-> "not_found"]

\* POST /my-stream/suspend (routes.py 185-227): 404 without a stream, otherwise
\* suspend_stream is called with the stream's id and selects the row.
SuspendMyStream(self, user_id, obs) ==
    /\ Idle(self)
    /\ LET stream == get_user_stream(user_id)
           me == [IdleProc EXCEPT !.op = "suspend_my_stream", !.user_id = user_id]
       IN procs' = Set(self,
            IF stream = NULL
            THEN Return(me, NotFound404, obs)
            ELSE [me EXCEPT !.op = "suspend", !.pc = "susp_commit",
                            !.stream_id = stream, !.status = streams[stream].status])
    /\ crashed' = FALSE
    /\ UNCHANGED <<ports, streams, nextId>>

\* POST /my-stream/terminate (routes.py 230-270): 404 without a stream, otherwise
\* terminate_stream is called with the stream's id and selects the row.
TerminateMyStream(self, user_id, obs) ==
    /\ Idle(self)
    /\ LET stream == get_user_stream(user_id)
           me == [IdleProc EXCEPT !.op = "terminate_my_stream", !.user_id = user_id]
       IN procs' = Set(self,
            IF stream = NULL
            THEN Return(me, NotFound404, obs)
            ELSE [me EXCEPT !.op = "terminate", !.pc = "rel_select",
                            !.stream_id = stream, !.status = streams[stream].status,
                            !.port = streams[stream].port])
    /\ crashed' = FALSE
    /\ UNCHANGED <<ports, streams, nextId>>

\* GET /my-stream/stats (routes.py 144-182): 404 without a stream, otherwise the
\* statistics of the stream are read and returned.
GetMyStreamStats(self, user_id, obs) ==
    /\ Idle(self)
    /\ LET stream == get_user_stream(user_id)
           me == [IdleProc EXCEPT !.op = "get_my_stream_stats", !.user_id = user_id]
       IN procs' = Set(self,
            IF stream = NULL
            THEN Return(me, NotFound404, obs)
            ELSE Return(me, [kind |-> "stats", id |-> stream,
                             port |-> streams[stream].port, why |-> "read"], obs))
    /\ crashed' = FALSE
    /\ UNCHANGED <<ports, streams, nextId>>

\* ----------------------------------------------- the password generators
\* string.ascii_lowercase, string.ascii_uppercase, string.digits and the special
\* characters of the alphabet (service.py line 127, streams/utils.py line 94).
ascii_lowercase == {"a", "b", "c", "d", "e", "f", "g", "h", "i", "j", "k", "l", "m",
                    "n", "o", "p", "q", "r", "s", "t", "u", "v", "w", "x", "y", "z"}
ascii_uppercase == {"A", "B", "C", "D", "E", "F", "G", "H", "I", "J", "K", "L", "M",
                    "N", "O", "P", "Q", "R", "S", "T", "U", "V", "W", "X", "Y", "Z"}
digits == {"0", "1", "2", "3", "4", "5", "6", "7", "8", "9"}
special == {"!", "@", "#", "$", "%", "^", "&", "*"}
alphabet == ascii_lowercase \cup ascii_uppercase \cup digits \cup special

\* The default of the parameter `length` of both generators.
PasswordLength == 16

\* c.islower(), c.isupper(), c.isdigit()
ClassOf(c) ==
    CASE c \in ascii_lowercase -> "lower"
      [] c \in ascii_uppercase -> "upper"
      [] c \in digits -> "digit"
      [] OTHER -> "special"

\* The classes of the characters of a password; the password with one more
\* character; password[:-1] + a character of the class.
ClassesOf(pw) == pw.body \cup (IF pw.length > 0 THEN {pw.last} ELSE {})
Joined(pw, c) ==
    [length |-> pw.length + 1, body |-> ClassesOf(pw), last |-> ClassOf(c)]
ReplaceLast(pw, class) == [pw EXCEPT !.last = class]

\* streams/utils.py lines 97-103: the three repairs, each on the last character.
EnsureClass(pw, class) ==
    IF class \notin ClassesOf(pw) THEN ReplaceLast(pw, class) ELSE pw
EnsureAll(pw) == EnsureClass(EnsureClass(EnsureClass(pw, "lower"), "upper"), "digit")

\* generate_secure_password() (service.py 125-128) or generate_source_password()
\* (streams/utils.py 79-105) is called with the default length.
Generate(self, generator) ==
    /\ Idle(self)
    /\ procs' = Set(self, [IdleProc EXCEPT !.pc = "gen_choice", !.op = generator])
    /\ crashed' = FALSE
    /\ UNCHANGED <<ports, streams, nextId>>

\* secrets.choice(alphabet), once per character.
GenChoice(self, c) ==
    /\ procs[self].pc = "gen_choice"
    /\ procs[self].secret.length < PasswordLength
    /\ procs' = Set(self, [procs[self] EXCEPT !.secret = Joined(@, c)])
    /\ UNCHANGED <<ports, streams, nextId, crashed>>

\* The password is returned, by generate_source_password after its repairs.
GenReturn(self) ==
    /\ procs[self].pc = "gen_choice"
    /\ procs[self].secret.length = PasswordLength
    /\ LET me == procs[self]
           pw == IF me.op = "generate_source_password"
                 THEN EnsureAll(me.secret) ELSE me.secret
       IN procs' = Set(self, Return([me EXCEPT !.secret = pw],
                                    [kind |-> "secret", id |-> NULL, port |-> NULL,
                                     why |-> "generated"], TRUE))
    /\ UNCHANGED <<ports, streams, nextId, crashed>>

\* ------------------------------------------------------ ShoutcastClient
\* What the streaming server does with a request: it answers 200 with a body (a
\* status document, an empty body, a body that is not XML, a document without a
\* STREAM element, a document whose counters are not numbers), it answers with
\* another status, the 30 s timeout expires, or the connection raises.
FailedResponses == {"non_200", "timeout", "raises"}
Responses ==
    {"xml", "empty", "malformed", "no_stream", "not_a_number"} \cup FailedResponses

ClientOps ==
    {"get_server_status", "get_stream_info", "create_stream", "update_stream_metadata",
     "kick_source", "kick_listener", "get_listener_list", "set_stream_title",
     "reload_configuration"}
\* The operations that call _make_request; create_stream does not.
RequestingOps == ClientOps \ {"create_stream"}

\* The value of the operation's early return and of its except branch.
FailureValue(op) ==
    CASE op \in {"get_server_status", "get_stream_info"} -> "none"
      [] op = "get_listener_list" -> "empty_list"
      [] OTHER -> "false"

\* _make_request: the body of a 200 answer, None for every other answer and for
\* every exception.
make_request(response) ==
    IF response \in FailedResponses THEN "None" ELSE response

\* The exception the body of an operation raises on a text, "none" if it raises
\* none: ET.fromstring on a body that is not XML, int() on a counter that is not
\* a number.
Raises(op, text) ==
    CASE text = "malformed"
             /\ op \in {"get_server_status", "get_stream_info", "get_listener_list"}
           -> "ParseError"
      [] text = "not_a_number" /\ op = "get_stream_info" -> "ValueError"
      [] OTHER -> "none"

\* What the body returns when it raises nothing.
Parsed(op, text) ==
    CASE op = "get_server_status" ->
             IF text \in {"None", "empty"} THEN "none" ELSE "dict"
      [] op = "get_stream_info" ->
             IF text \in {"None", "empty", "no_stream"} THEN "none" ELSE "dict"
      [] op = "get_listener_list" ->
             IF text \in {"None", "empty"} THEN "empty_list" ELSE "list"
      [] OTHER -> IF text # "None" THEN "true" ELSE "false"

\* try: ... except Exception: return the failure value.
ClientResult(op, text) ==
    IF Raises(op, text) # "none" THEN FailureValue(op) ELSE Parsed(op, text)

\* An operation is called and awaits _make_request; the server will answer the
\* request with `response`.
ClientCall(self, op, response) ==
    /\ Idle(self)
    /\ op \in RequestingOps
    /\ procs' = Set(self, [IdleProc EXCEPT !.pc = "client_request", !.op = op,
                                           !.response = response])
    /\ crashed' = FALSE
    /\ UNCHANGED <<ports, streams, nextId>>

\* _make_request returns.
MakeRequest(self) ==
    /\ procs[self].pc = "client_request"
    /\ procs' = Set(self, [procs[self] EXCEPT !.pc = "client_parse",
                                              !.text = make_request(procs[self].response)])
    /\ UNCHANGED <<ports, streams, nextId, crashed>>

\* The operation returns.
ClientReturn(self) ==
    /\ procs[self].pc = "client_parse"
    /\ LET me == procs[self]
       IN procs' = Set(self, Return(me, [kind |-> ClientResult(me.op, me.text),
                                         id |-> NULL, port |-> NULL,
                                         why |-> Raises(me.op, me.text)], TRUE))
    /\ UNCHANGED <<ports, streams, nextId, crashed>>

\* create_stream(config): it builds the configuration section and returns True
\* without any request to the server, whose answer to a request would have been
\* `response`; a config dict that misses a key raises KeyError, which is caught.
CreateStream(self, response, complete) ==
    /\ Idle(self)
    /\ LET me == [IdleProc EXCEPT !.op = "create_stream", !.response = response]
       IN procs' = Set(self, ReturnBool(me, complete,
                                        IF complete THEN "none" ELSE "KeyError", TRUE))
    /\ crashed' = FALSE
    /\ UNCHANGED <<ports, streams, nextId>>

\* -------------------------------------------------- initialize_port_pool
\* lines 40-45: the count of the rows; a pool that holds a row counts as
\* initialized.
AlreadyInitialized(pool) == Cardinality(DOMAIN pool) > 0

\* lines 47-55: one free row per port of the range is added and committed.  port
\* is the primary key: the INSERT fails when a row of the range exists already.
\* (Mutation: the rows of the range are written over the existing ones.)
ReplaceAll(pool) == [ok |-> TRUE, pool |-> [p \in Ports |-> FreePort]]
InsertAll(pool) ==
    IF DOMAIN pool \cap Ports # {}
    THEN [ok |-> FALSE, pool |-> pool]
    ELSE [ok |-> TRUE, pool |-> [p \in Ports |-> FreePort] @@ pool]

\* lines 38-45: initialize_port_pool is called and counts the rows.
Initialize(self, obs) ==
    /\ Idle(self)
    /\ LET me == [IdleProc EXCEPT !.op = "initialize",
                                  !.before = IF obs THEN DOMAIN ports ELSE {}] IN
       procs' = Set(self,
          IF AlreadyInitialized(ports)
          THEN ReturnBool(me, TRUE, "already_initialized", obs)
          ELSE [me EXCEPT !.pc = "init_commit"])
    /\ crashed' = FALSE
    /\ UNCHANGED <<ports, streams, nextId>>

\* lines 47-59: the rows are added and committed (True), or the INSERT violates
\* the primary key and the handler rolls back (False, lines 61-64).
InitCommit(self, obs) ==
    /\ procs[self].pc = "init_commit"
    /\ LET inserted == InsertAll(ports) IN
        /\ ports' = inserted.pool
        /\ procs' = Set(self, ReturnBool(procs[self], inserted.ok,
                                        IF inserted.ok THEN "initialized"
                                        ELSE "IntegrityError", obs))
    /\ UNCHANGED <<streams, nextId, crashed>>

\* lines 61-64: the commit raises a database error; rollback, False.
InitCommitFail(self, obs) ==
    /\ procs[self].pc = "init_commit"
    /\ procs' = Set(self, ReturnBool(procs[self], FALSE, "DatabaseError", obs))
    /\ UNCHANGED <<ports, streams, nextId, crashed>>

\* ------------------------------------------------------------- the process
\* The process dies: every open transaction is lost, the committed rows stay.
Crash ==
    /\ InFlight # {}
    /\ crashed' = TRUE
    /\ procs' = [self \in Procs |-> IdleProc]
    /\ UNCHANGED <<ports, streams, nextId>>

\* The steps of provision_stream and of the calls it makes.
ProvStep(self, obs) ==
    \/ AllocSelect(self, obs) \/ AllocCommit(self, obs)
    \/ (\E source_password, admin_password \in Secrets(obs) :
            ProvFlush(self, source_password, admin_password))
    \/ ProvAssoc(self)
    \/ \E outcome \in ConfigureOutcomes : ProvConfigure(self, outcome)
    \/ ProvCommit(self, obs)
    \/ RelSelect(self, obs) \/ RelCommit(self, obs)

\* The steps of the handlers in flight.
Step(self, obs) == ProvStep(self, obs) \/ SuspCommit(self, obs)

\* A statement or a commit raises a database error.
Fault(self, obs) ==
    \/ AllocCommitFail(self, obs) \/ ProvFail(self)
    \/ RelCommitFail(self, obs) \/ SuspCommitFail(self, obs)

\* A request arrives and takes the first free slot.
FirstFree(self) == Idle(self) /\ \A q \in Procs : q < self => ~Idle(q)

Call(self) ==
    /\ FirstFree(self)
    /\ Cardinality(InFlight) < MaxConcurrent
    /\ \/ \E user_id \in Callers : Provision(self, user_id, FALSE)
       \/ \E id \in StreamIds : Suspend(self, id, FALSE)
       \/ \E id \in StreamIds : Terminate(self, id, FALSE)

\* Concurrent requests; no database error.
Next == (\E self \in Procs : Call(self) \/ Step(self, FALSE)) \/ Crash

Spec == Init /\ [][Next]_vars

\* One request at a time, observed; database errors and crashes.
CallSeq ==
    /\ InFlight = {}
    /\ \/ \E user_id \in Callers : Provision(1, user_id, TRUE)
       \/ \E id \in StreamIds : Suspend(1, id, TRUE)
       \/ \E id \in StreamIds : Terminate(1, id, TRUE)

NextSeq == CallSeq \/ Step(1, TRUE) \/ Fault(1, TRUE) \/ Crash

SpecSeq == Init /\ [][NextSeq]_vars

\* One request at a time, observed; database errors, the process stays up.
NextCalls == CallSeq \/ Step(1, TRUE) \/ Fault(1, TRUE)

SpecCalls == Init /\ [][NextCalls]_vars

\* One request at a time, to the service or through the routes; no database error.
CallApi ==
    /\ InFlight = {}
    /\ \/ \E user_id \in Callers : Provision(1, user_id, TRUE)
       \/ \E id \in StreamIds : Suspend(1, id, TRUE)
       \/ \E id \in StreamIds : Terminate(1, id, TRUE)
       \/ \E user_id \in Callers : SuspendMyStream(1, user_id, TRUE)
       \/ \E user_id \in Callers : TerminateMyStream(1, user_id, TRUE)
       \/ \E user_id \in Callers : GetMyStreamStats(1, user_id, TRUE)

NextApi == CallApi \/ Step(1, TRUE)

SpecApi == Init /\ [][NextApi]_vars

\* update_stream, one request at a time, on a user_streams row of user 1 in any
\* status and with either bitrate.
InitUpdate ==
    /\ ports = << >>
    /\ \E status \in UserStreamStatus, bitrate \in Bitrates :
          streams = (1 :> UserStreamRow(1, status, bitrate))
    /\ nextId = 2
    /\ procs = [self \in Procs |-> IdleProc]
    /\ crashed = FALSE

CallUpdate(session, id, user_id, update_data) ==
    /\ procs[1].tasks = << >>
    /\ UpdateStream(1, session, id, user_id, update_data)

NextUpdate ==
    \/ \E session \in Sessions, id \in StreamIds, user_id \in Callers,
          update_data \in ValidUpdateData :
            CallUpdate(session, id, user_id, update_data)
    \/ UpdCommit(1)
    \/ UpdEvent(1)
    \/ UpdFail(1)
    \/ BackgroundTask(1)

SpecUpdate == InitUpdate /\ [][NextUpdate]_vars

\* get_stream_stats, one call at a time, on a stream with any sessions and any
\* samples, beside which a second stream with a session and samples of its
\* own may exist.
OtherStream ==
    [sessions |-> (1 :> [started_at |-> 0, peak_listeners |-> MaxPeak + 1]),
     monitoring_data |-> [day \in Days |-> 1]]

InitStats ==
    /\ ports = << >>
    /\ \E sessions \in SessionTables, monitoring_data \in MonitoringTables :
         \E others \in {<< >>, (2 :> OtherStream)} :
          streams = (1 :> [sessions |-> sessions, monitoring_data |-> monitoring_data])
                       @@ others
    /\ nextId = 3
    /\ procs = [self \in Procs |-> IdleProc]
    /\ crashed = FALSE

NextStats == \E id \in StreamIds, days \in 1 .. MaxDay : GetStreamStats(1, id, days)

SpecStats == InitStats /\ [][NextStats]_vars

\* Concurrent callers of allocate_port, one call per slot.
NextAlloc ==
    \E self \in Procs :
        \/ procs[self].pc = "idle" /\ \E user_id \in Users : Allocate(self, user_id)
        \/ AllocSelect(self, TRUE)
        \/ AllocCommit(self, TRUE)

SpecAlloc == Init /\ [][NextAlloc]_vars

\* Every slot's user calls provision_stream once, concurrently; no database error.
NextOnce ==
    \E self \in Procs :
        \/ procs[self].pc = "idle" /\ self \in Users /\ Provision(self, self, TRUE)
        \/ ProvStep(self, TRUE)

SpecOnce == Init /\ [][NextOnce]_vars

\* The pool's operations alone, one call at a time: allocate_port by any user and
\* release_port of any port number, the last of which has no row.
PortNumbers == port_range_start .. (port_range_start + NumPorts)

CallPool ==
    /\ InFlight = {}
    /\ \/ \E user_id \in Users : Allocate(1, user_id)
       \/ \E port \in PortNumbers : Release(1, port)

NextPool ==
    \/ CallPool
    \/ AllocSelect(1, TRUE) \/ AllocCommit(1, TRUE)
    \/ RelSelect(1, TRUE) \/ RelCommit(1, TRUE)

SpecPool == Init /\ [][NextPool]_vars

\* The port_pool table as initialize_port_pool can find it: empty, complete, or
\* holding rows for a part of the range only.
InitAnyPool ==
    /\ ports \in {[p \in S |-> FreePort] : S \in SUBSET Ports}
    /\ streams = << >>
    /\ nextId = 1
    /\ procs = [self \in Procs |-> IdleProc]
    /\ crashed = FALSE

\* Concurrent callers of initialize_port_pool and of allocate_port, one call per
\* slot; the commit of the new rows may raise.
NextInit ==
    \E self \in Procs :
        \/ procs[self].pc = "idle" /\ Initialize(self, TRUE)
        \/ InitCommit(self, TRUE)
        \/ InitCommitFail(self, TRUE)
        \/ procs[self].pc = "idle" /\ \E user_id \in Users : Allocate(self, user_id)
        \/ AllocSelect(self, TRUE)
        \/ AllocCommit(self, TRUE)

SpecInit == InitAnyPool /\ [][NextInit]_vars

\* The two password generators, one call at a time.
Generators == {"generate_secure_password", "generate_source_password"}

NextSecret ==
    \/ \E generator \in Generators : Generate(1, generator)
    \/ \E c \in alphabet : GenChoice(1, c)
    \/ GenReturn(1)

SpecSecret == Init /\ [][NextSecret]_vars

\* The operations of the streaming-server client, one call at a time.
NextClient ==
    \/ \E op \in RequestingOps, response \in Responses : ClientCall(1, op, response)
    \/ MakeRequest(1)
    \/ ClientReturn(1)
    \/ \E response \in Responses, complete \in BOOLEAN :
           CreateStream(1, response, complete)

SpecClient == Init /\ [][NextClient]_vars

\* One request at a time, Provision only: the callers call again and again (the
\* retry of a caller whose stream is still in provisioning), no database error,
\* no crash.  The callers keep calling, every handler runs to its end, and the
\* streaming server accepts a configuration that keeps being asked of it.
CallRetry(user_id) == InFlight = {} /\ Provision(1, user_id, TRUE)

NextRetry ==
    \/ \E user_id \in Callers : CallRetry(user_id)
    \/ AllocSelect(1, TRUE) \/ AllocCommit(1, TRUE)
    \/ (\E source_password, admin_password \in Secrets(TRUE) :
            ProvFlush(1, source_password, admin_password))
    \/ ProvAssoc(1)
    \/ (\E outcome \in ConfigureOutcomes : ProvConfigure(1, outcome))
    \/ ProvCommit(1, TRUE)

SpecRetry ==
    /\ Init /\ [][NextRetry]_vars
    /\ WF_vars(NextRetry)
    /\ \A user_id \in Callers : SF_vars(CallRetry(user_id))
    /\ SF_vars(ProvConfigure(1, "configured"))

\* Provision, one request at a time, with any shoutcast_servers table at the time
\* of the configuration; no database error.
NextServers ==
    \/ \E user_id \in Callers : CallRetry(user_id)
    \/ AllocSelect(1, TRUE) \/ AllocCommit(1, TRUE)
    \/ (\E source_password, admin_password \in Secrets(TRUE) :
            ProvFlush(1, source_password, admin_password))
    \/ ProvAssoc(1)
    \/ (\E servers \in ServerTables, success \in BOOLEAN :
            ConfigureShoutcast(1, servers, success))
    \/ ProvCommit(1, TRUE)

SpecServers == Init /\ [][NextServers]_vars

\* One request at a time, Provision and Suspend: every caller provisions again
\* and again, every stream is suspended again and again, and every step that is
\* possible again and again is taken.
SuspendCall(id) == InFlight = {} /\ Suspend(1, id, TRUE)

NextResume ==
    \/ \E user_id \in Callers : CallRetry(user_id)
    \/ \E id \in StreamIds : SuspendCall(id)
    \/ AllocSelect(1, TRUE) \/ AllocCommit(1, TRUE)
    \/ (\E source_password, admin_password \in Secrets(TRUE) :
            ProvFlush(1, source_password, admin_password))
    \/ ProvAssoc(1)
    \/ (\E outcome \in ConfigureOutcomes : ProvConfigure(1, outcome))
    \/ ProvCommit(1, TRUE)
    \/ SuspCommit(1, TRUE)

SpecResume ==
    /\ Init /\ [][NextResume]_vars
    /\ WF_vars(NextResume)
    /\ \A user_id \in Callers : SF_vars(CallRetry(user_id))
    /\ \A id \in StreamIds : SF_vars(SuspendCall(id))
    /\ SF_vars(ProvConfigure(1, "configured"))

\* ================================================================ claims
Min(a, b) == IF a < b THEN a ELSE b
LiveStreams(user_id) ==
    {s \in DOMAIN streams : streams[s].user_id = user_id /\ streams[s].status # TERMINATED}
Owned(p) ==
    \E s \in DOMAIN streams :
        /\ streams[s].port = p
        /\ streams[s].status # TERMINATED
        /\ ports[p].allocated_to_stream_id = s

\* C1 (SpecAlloc): no two callers of allocate are returned the same port; once all
\* N callers have returned, min(N, K) of them hold a port (K ports were free) and
\* the others were told that no port is available.
C1_NoDoubleAllocation ==
    LET done == {q \in Procs : Returned(q, "allocate")}
        ok == {q \in done : procs[q].res.kind = "port"}
    IN /\ \A q, r \in ok : q # r => procs[q].res.port # procs[r].res.port
       /\ done = Procs =>
            /\ Cardinality(ok) = Min(NumProcs, NumPorts)
            /\ \A q \in done \ ok : procs[q].res.why = "no_ports"

\* C2 (SpecOnce): once the concurrent Provision calls of the distinct users have all
\* returned, as many as there were free ports have succeeded, with distinct ports,
\* the others were refused for lack of a port, and every port is allocated to the
\* stream of one of the successful calls.
C2_TwoOfThreeSucceed ==
    LET ok == {q \in Procs : procs[q].res.kind = "stream"} IN
    (\A q \in Procs : Returned(q, "provision")) =>
        /\ Cardinality(ok) = Min(NumProcs, NumPorts)
        /\ \A q, r \in ok : q # r => procs[q].res.port # procs[r].res.port
        /\ \A q \in Procs \ ok : procs[q].res.why = "no_ports"
        /\ \A q \in ok :
              /\ ports[procs[q].res.port].is_allocated
              /\ ports[procs[q].res.port].allocated_to_stream_id = procs[q].res.id

ClaimedThenFailed(q) ==
    /\ Returned(q, "provision")
    /\ procs[q].res.kind = "none"
    /\ procs[q].res.port # NULL

\* C3 (SpecSeq): when Provision has returned a failure after it had claimed a port,
\* that port is free, with every allocation field cleared.
C3_NoLeakOnFailure ==
    \A q \in Procs : ClaimedThenFailed(q) => ports[procs[q].res.port] = FreePort

\* C4 (Spec): after a crash, no port is marked allocated without a persisted
\* stream that owns it.
C4_NoLeakOnCrash ==
    crashed => \A p \in Ports : ports[p].is_allocated => Owned(p)

\* C5 (Spec): every user has at most one non-terminated stream.
C5_OneLiveStreamPerUser ==
    \A u \in Users : Cardinality(LiveStreams(u)) <= 1

ProvisionCalled(q) == Idle(q) /\ procs'[q] # procs[q] /\ procs'[q].op = "provision"

\* C6 (SpecSeq): a Provision call by a user who has a non-terminated stream returns
\* that stream at once and changes no port row and no stream row.
C6_ExistingStreamReturned ==
    [][\A q \in Procs :
          ProvisionCalled(q) /\ LiveStreams(procs'[q].user_id) # {} =>
             /\ procs'[q].pc = "done"
             /\ procs'[q].res.kind = "stream"
             /\ procs'[q].res.id \in LiveStreams(procs'[q].user_id)
             /\ ports' = ports /\ streams' = streams /\ nextId' = nextId]_vars

CreatedThenCalledAgain(q) ==
    /\ Returned(q, "provision")
    /\ procs[q].prev.res.kind = "stream"
    /\ procs[q].prev.res.why = "created"

\* C7 (SpecSeq): when a Provision call that created a stream is followed at once by
\* a second Provision call of the same user, the second returns the same stream id
\* and the same port, and one port more is allocated than before the first call.
C7_ProvisionTwiceSameStream ==
    \A q \in Procs :
        CreatedThenCalledAgain(q) =>
            /\ procs[q].res.kind = "stream"
            /\ procs[q].res.id = procs[q].prev.res.id
            /\ procs[q].res.port = procs[q].prev.res.port
            /\ Cardinality(AllocatedPorts) = Cardinality(procs[q].prev.before) + 1
C7_Witness ==
    \E q \in Procs :
        /\ CreatedThenCalledAgain(q)
        /\ procs[q].res.why = "existing"
        /\ streams[procs[q].res.id].status = PROVISIONING
C7_WitnessConfigured ==
    \E q \in Procs :
        /\ CreatedThenCalledAgain(q)
        /\ procs[q].res.why = "existing"
        /\ streams[procs[q].res.id].status = ACTIVE

\* C8 (Spec): the port of every non-terminated stream is allocated and refers back
\* to that stream; the port of every terminated stream is free or refers to
\* another stream.
C8_StreamPortAgree ==
    \A s \in DOMAIN streams :
        LET row == ports[streams[s].port] IN
        IF streams[s].status # TERMINATED
        THEN row.is_allocated /\ row.allocated_to_stream_id = s
        ELSE ~row.is_allocated \/ row.allocated_to_stream_id \notin {NULL, s}

\* C9 (Spec): in the committed port pool a port is allocated exactly when it has
\* an owning stream, and no port is referenced by two non-terminated streams.
C9_AllocatedIffOwned ==
    /\ \A p \in Ports : ports[p].is_allocated <=> ports[p].allocated_to_stream_id # NULL
    /\ \A p \in Ports :
          Cardinality({s \in DOMAIN streams :
                          streams[s].port = p /\ streams[s].status # TERMINATED}) <= 1

LowestPort == port_range_start
ReusedAfterTerminate(q) ==
    /\ Returned(q, "provision")
    /\ LowestPort \notin procs[q].before
    /\ procs[q].res.why \in {"created", "IntegrityError", "no_ports"}
    /\ \E a \in DOMAIN streams :
          /\ streams[a].port = LowestPort
          /\ streams[a].status = TERMINATED
          /\ streams[a].user_id # procs[q].user_id

\* C10 (SpecSeq): with the lowest port free and last held by a terminated stream of
\* another user, a Provision call of a user without a stream that meets no
\* database error returns a stream on that port, and the terminated row is kept.
C10_PortReusedAfterTerminate ==
    \A q \in Procs :
        ReusedAfterTerminate(q) =>
            /\ procs[q].res.kind = "stream"
            /\ procs[q].res.port = LowestPort

\* terminate_stream returns in this step, having loaded stream row `id`.
TerminateReturns(q) ==
    /\ procs[q].op = "terminate"
    /\ procs[q].pc # "done"
    /\ procs'[q].pc = "done"

\* C11 (SpecSeq): a Terminate call that loaded a stream in a non-terminated status
\* returns success, and when it returns the stream is terminated and not live and
\* its port row is free with timestamp, owning user and owning stream cleared.
C11_TerminateFreesPort ==
    [][\A q \in Procs :
          TerminateReturns(q) /\ procs[q].stream_id \in DOMAIN streams
                              /\ procs[q].status # TERMINATED =>
             /\ procs'[q].res.kind = "true"
             /\ streams'[procs[q].stream_id].status = TERMINATED
             /\ ~streams'[procs[q].stream_id].is_live
             /\ ports'[procs[q].port] = FreePort]_vars
C11_WithoutDatabaseError ==
    [][\A q \in Procs :
          TerminateReturns(q) /\ procs[q].stream_id \in DOMAIN streams
                              /\ procs[q].status # TERMINATED
                              /\ procs'[q].res.why = "terminated" =>
             /\ procs'[q].res.kind = "true"
             /\ streams'[procs[q].stream_id].status = TERMINATED
             /\ ~streams'[procs[q].stream_id].is_live
             /\ ports'[procs[q].port] = FreePort]_vars

\* C12 (SpecSeq): a Terminate call that loaded an already terminated stream returns
\* success and changes no stream row and no port row, so a port the stream once
\* held and that has been allocated again stays allocated.
C12_TerminateIdempotent ==
    [][\A q \in Procs :
          TerminateReturns(q) /\ procs[q].stream_id \in DOMAIN streams
                              /\ procs[q].status = TERMINATED =>
             /\ procs'[q].res.kind = "true"
             /\ streams' = streams
             /\ ports' = ports]_vars

\* C13 (SpecSeq): a stream whose status is terminated keeps that status in every
\* later state, whatever operation runs.
C13_TerminatedIsTerminal ==
    [][\A s \in DOMAIN streams :
          streams[s].status = TERMINATED =>
             s \in DOMAIN streams' /\ streams'[s].status = TERMINATED]_vars

\* suspend_stream returns in this step, having loaded stream row `stream_id`.
SuspendReturns(q) ==
    /\ procs[q].op = "suspend"
    /\ procs[q].pc = "susp_commit"
    /\ procs'[q].pc = "done"

\* C14 (SpecSeq): a Suspend call that loaded a stream whose status is not active is
\* rejected (it returns failure) and leaves the stream's status and liveness as
\* they were; only a call on an active stream succeeds.
C14_SuspendOnlyFromActive ==
    [][\A q \in Procs :
          SuspendReturns(q) /\ procs[q].status # ACTIVE =>
             /\ procs'[q].res.kind = "false"
             /\ streams'[procs[q].stream_id].status = streams[procs[q].stream_id].status
             /\ streams'[procs[q].stream_id].is_live = streams[procs[q].stream_id].is_live]_vars

\* C15 (SpecSeq): a Suspend call that returns success leaves the stream suspended
\* and not live, with the port, the source password and the admin password it had,
\* and leaves every port row as it was.
C15_SuspendFrame ==
    [][\A q \in Procs :
          SuspendReturns(q) /\ procs'[q].res.kind = "true" =>
             LET old == streams[procs[q].stream_id]
                 new == streams'[procs[q].stream_id]
             IN /\ new.status = SUSPENDED
                /\ ~new.is_live
                /\ new.port = old.port
                /\ new.source_password = old.source_password
                /\ new.admin_password = old.admin_password
                /\ ports' = ports]_vars
C15_Witness ==
    \E q \in Procs, s \in DOMAIN streams :
        /\ Returned(q, "suspend")
        /\ procs[q].res.kind = "true"
        /\ streams[s].status = SUSPENDED
        /\ streams[s].source_password # streams[s].admin_password
        /\ ports[streams[s].port].allocated_to_stream_id = s

\* provision_stream asks the pool for a port in this step (the select of line 70)
\* while no port is free.
AllocatesFromEmptyPool(q) ==
    /\ procs[q].op = "provision"
    /\ procs[q].pc = "alloc_select"
    /\ procs'[q] # procs[q]
    /\ FreePorts(ports) = {}

\* C16 (SpecOnce): when no port is free, a Provision call of a user without a
\* stream returns no stream for lack of capacity, leaves every port row and the
\* set of stream rows as they were, and has made no create_stream call.
C16_NoCapacityNoEffect ==
    [][\A q \in Procs :
          AllocatesFromEmptyPool(q) =>
             /\ procs'[q].pc = "done"
             /\ procs'[q].res.kind = "none"
             /\ procs'[q].res.why = "no_ports"
             /\ procs'[q].outcome = "none"
             /\ ports' = ports
             /\ streams' = streams
             /\ nextId' = nextId]_vars
C16_Witness ==
    \E q \in Procs :
        /\ Returned(q, "provision")
        /\ procs[q].res.why = "no_ports"
        /\ LiveStreams(procs[q].user_id) = {}
        /\ FreePorts(ports) = {}
        /\ \A p \in Ports : Owned(p)

\* provision_stream has returned after create_stream was called and failed, and no
\* database statement of the call raised.
ReturnedAfterRefusal(q) ==
    /\ Returned(q, "provision")
    /\ procs[q].outcome = "refused"
    /\ procs[q].res.why \notin {"DatabaseError", "release_failed"}

\* C17 (SpecSeq): when create_stream has failed, Provision returns a stream whose
\* committed row is in status provisioning, and the port of that stream is
\* allocated to the caller with its owning-stream reference equal to the stream.
C17_ExternalFailureKeepsLocalState ==
    \A q \in Procs :
        ReturnedAfterRefusal(q) =>
            /\ procs[q].res.kind = "stream"
            /\ procs[q].res.id \in DOMAIN streams
            /\ streams[procs[q].res.id].status = PROVISIONING
            /\ streams[procs[q].res.id].user_id = procs[q].user_id
            /\ streams[procs[q].res.id].port = procs[q].res.port
            /\ ports[procs[q].res.port] =
                  [is_allocated |-> TRUE, allocated_at |-> Now,
                   allocated_to_user_id |-> procs[q].user_id,
                   allocated_to_stream_id |-> procs[q].res.id]
C17_Witness ==
    \E q \in Procs :
        /\ ReturnedAfterRefusal(q)
        /\ procs[q].res.why = "created"
        /\ streams[procs[q].res.id].status = PROVISIONING
        /\ ports[procs[q].res.port].allocated_to_stream_id = procs[q].res.id

\* C18 (SpecRetry): a stream that is in provisioning becomes active later on, when
\* its owner keeps retrying and the streaming server accepts the configuration
\* asked of it.
C18_RetryActivates ==
    \A s \in StreamIds :
        (s \in DOMAIN streams /\ streams[s].status = PROVISIONING)
            ~> (s \in DOMAIN streams /\ streams[s].status = ACTIVE)
\* No operation takes a committed stream from provisioning to active.
C18_NoRetryPath ==
    [][\A s \in DOMAIN streams :
          streams[s].status = PROVISIONING => streams'[s].status # ACTIVE]_vars

\* C19 (SpecSeq): a stream that Provision has just created is active with its
\* activation time set exactly when create_stream succeeded, and no stream in
\* status provisioning has an activation time.
C19_ActiveIffConfigured ==
    /\ \A q \in Procs :
          Returned(q, "provision") /\ procs[q].res.why = "created" =>
             LET new == streams[procs[q].res.id] IN
             /\ (new.status = ACTIVE /\ new.activated_at # NULL)
                    <=> procs[q].outcome = "configured"
             /\ new.status \in {ACTIVE, PROVISIONING}
    /\ \A s \in DOMAIN streams :
          streams[s].status = PROVISIONING => streams[s].activated_at = NULL
C19_Witness ==
    \E q \in Procs : \E s, t \in DOMAIN streams :
        /\ Returned(q, "provision") /\ procs[q].res.why = "created"
        /\ procs[q].res.id = s /\ procs[q].outcome = "configured"
        /\ streams[s].status = ACTIVE /\ streams[s].activated_at = Now
        /\ streams[t].status = PROVISIONING /\ streams[t].activated_at = NULL

\* allocate_port returns in this step.
AllocateReturns(q) ==
    /\ procs[q].op = "allocate"
    /\ procs[q].pc # "done"
    /\ procs'[q].pc = "done"

\* C20 (SpecPool): when a port is free, allocate returns the lowest-numbered free
\* port, that port's row becomes allocated to the requester with the timestamp,
\* and every other port row stays as it was.
C20_AllocateLowestFree ==
    [][\A q \in Procs :
          AllocateReturns(q) /\ FreePorts(ports) # {} =>
             LET p == procs'[q].res.port IN
             /\ procs'[q].res.kind = "port"
             /\ p \in FreePorts(ports)
             /\ \A f \in FreePorts(ports) : p <= f
             /\ ports'[p] = [ports[p] EXCEPT !.is_allocated = TRUE,
                                             !.allocated_at = Now,
                                             !.allocated_to_user_id = procs[q].user_id]
             /\ \A o \in Ports \ {p} : ports'[o] = ports[o]]_vars
C20_Witness ==
    \E q \in Procs : \E o \in Ports :
        /\ Returned(q, "allocate")
        /\ procs[q].res.kind = "port"
        /\ o > procs[q].res.port
        /\ ports[o].is_allocated
        /\ ports[o].allocated_to_user_id # procs[q].user_id
        /\ ports[procs[q].res.port].allocated_to_user_id = procs[q].user_id

\* C21 (SpecInit): when initialize has returned success, the pool holds a row for
\* every port of the configured range, whatever rows it held before the call and
\* whatever other initialize calls ran at the same time.
C21_InitializeCompletesPool ==
    \A q \in Procs :
        Returned(q, "initialize") /\ procs[q].res.kind = "true" =>
            DOMAIN ports = Ports
C21_FromEmptyOrComplete ==
    \A q \in Procs :
        Returned(q, "initialize") /\ procs[q].res.kind = "true"
                                  /\ procs[q].before \in {{}, Ports} =>
            DOMAIN ports = Ports

\* A step of an initialize_port_pool call.
InitializeStep(q) == procs'[q] # procs[q] /\ procs'[q].op = "initialize"

\* C22 (SpecInit): no step of an initialize call removes a port row or changes the
\* allocation flag, timestamp, owning user or owning stream of a row that exists,
\* and on a pool that already has rows an initialize call changes nothing at all.
C22_InitializeKeepsRows ==
    [][\A q \in Procs :
          InitializeStep(q) =>
             /\ \A p \in DOMAIN ports : p \in DOMAIN ports' /\ ports'[p] = ports[p]
             /\ DOMAIN ports # {} => ports' = ports]_vars
C22_Witness ==
    \E q, r \in Procs :
        /\ q # r
        /\ Returned(q, "initialize") /\ procs[q].res.why = "initialized"
        /\ Returned(r, "initialize") /\ procs[r].res.why = "already_initialized"
        /\ procs[r].before = Ports
        /\ \E p \in Ports : ports[p].is_allocated

\* release_port returns in this step, having been called with procs[q].port.
ReleaseReturns(q) ==
    /\ procs[q].op = "release"
    /\ procs[q].pc # "done"
    /\ procs'[q].pc = "done"

\* C23 (SpecPool): release on a port whose row is free returns success and leaves
\* every port row as it was, so a second release of a port changes nothing.
C23_ReleaseFreeIsNoOp ==
    [][\A q \in Procs :
          ReleaseReturns(q) /\ procs[q].port \in DOMAIN ports
                            /\ ~ports[procs[q].port].is_allocated =>
             /\ procs'[q].res.kind = "true"
             /\ ports' = ports]_vars
C23_Witness ==
    \E q \in Procs :
        /\ Returned(q, "release")
        /\ procs[q].res.kind = "true"
        /\ procs[q].res.port \notin procs[q].before
        /\ procs[q].before # {}
        /\ AllocatedPorts = procs[q].before

\* C24 (SpecPool): release on a port number that has no row returns failure,
\* changes no port row and creates none.
C24_ReleaseMissingPort ==
    [][\A q \in Procs :
          ReleaseReturns(q) /\ procs[q].port \notin DOMAIN ports =>
             /\ procs'[q].res.kind = "false"
             /\ ports' = ports]_vars
C24_Witness ==
    \E q \in Procs :
        /\ Returned(q, "release")
        /\ procs[q].res.why = "port_not_found"
        /\ procs[q].res.kind = "false"
        /\ AllocatedPorts # {}
        /\ DOMAIN ports = Ports

\* C25 (SpecPool): when allocate(u) is followed by the release of the port it
\* returned, every port row is as it was before the allocation, and an allocate by
\* another requester that follows returns that same port.
C25_AllocateReleaseRoundTrip ==
    \A q \in Procs :
        /\ Returned(q, "release") /\ procs[q].trip.calls = 2 =>
              /\ procs[q].res.kind = "true"
              /\ ports = procs[q].trip.pool
        /\ Returned(q, "allocate") /\ procs[q].trip.calls = 3
                                   /\ procs[q].user_id # procs[q].trip.user =>
              /\ procs[q].res.kind = "port"
              /\ procs[q].res.port = procs[q].trip.port
C25_Witness ==
    \E q \in Procs : \E o \in Ports :
        /\ Returned(q, "allocate") /\ procs[q].trip.calls = 3
        /\ procs[q].user_id # procs[q].trip.user
        /\ procs[q].res.port = procs[q].trip.port
        /\ procs[q].trip.pool[o].is_allocated
        /\ o > procs[q].res.port

\* What the claim asks of a password.
Strong(pw) ==
    /\ pw.length >= 16
    /\ {"lower", "upper", "digit"} \subseteq ClassesOf(pw)

\* C26 (SpecSecret): every password generate_secure_password returns (the source
\* password and the admin password of a provisioned stream) has at least 16
\* characters, among them a lowercase letter, an uppercase letter and a digit.
C26_SecretsAreStrong ==
    \A q \in Procs :
        Returned(q, "generate_secure_password") => Strong(procs[q].secret)
\* The same of generate_source_password, which repairs a missing class.
C26_SourcePasswordIsStrong ==
    \A q \in Procs :
        Returned(q, "generate_source_password") => Strong(procs[q].secret)
C26_LengthOnly ==
    \A q \in Procs :
        procs[q].pc = "done" /\ procs[q].op \in Generators =>
            procs[q].secret.length = PasswordLength


\* C27 (SpecClient): every operation of the streaming-server client called while
\* the server answers requests with a status other than 200, with a timeout or
\* with an exception returns its failure value (None, False or the empty list).
C27_ClientFailsClosed ==
    \A q \in Procs : \A op \in ClientOps :
        Returned(q, op) /\ procs[q].response \in FailedResponses =>
            procs[q].res.kind = FailureValue(op)
\* The same of the eight operations that send a request.
C27_RequestingOpsFail ==
    \A q \in Procs : \A op \in RequestingOps :
        Returned(q, op) /\ procs[q].response \in FailedResponses =>
            procs[q].res.kind = FailureValue(op)
\* No operation hands an exception to its caller: each returns a value of its
\* return type, the failure value whenever its body raised.
C27_NeverRaises ==
    \A q \in Procs : \A op \in ClientOps :
        Returned(q, op) =>
            /\ procs[q].res.kind \in {"none", "dict", "true", "false", "list", "empty_list"}
            /\ procs[q].res.why # "none" => procs[q].res.kind = FailureValue(op)
C27_Witness ==
    \E q \in Procs :
        /\ Returned(q, "get_stream_info")
        /\ procs[q].response = "timeout"
        /\ procs[q].res.kind = "none"


\* create_stream is invoked in this step of q (line 259, reached from line 192).
CreateStreamInvoked(q) ==
    /\ procs[q].pc = "prov_configure"
    /\ procs'[q].outcome \in {"refused", "configured"}
\* The port of q's flow is marked allocated in the pool.
PortHeld(q) ==
    /\ procs[q].port \in DOMAIN ports
    /\ ports[procs[q].port].is_allocated
\* q's flow has inserted its stream row: it has an id, the flow's port, both
\* passwords and status provisioning.
RowInserted(q) ==
    /\ procs[q].stream_id # NULL
    /\ procs[q].status = PROVISIONING
    /\ procs[q].source_password # NULL
    /\ procs[q].admin_password # NULL

\* C28 (SpecSeq): the steps of one Provision flow follow each other in this
\* order, each after the previous one succeeded: the port is allocated, the
\* passwords are generated and the stream row is inserted in status provisioning
\* with that port, the port row is associated with the stream, create_stream is
\* invoked; create_stream is invoked only for a flow that holds its port and has
\* inserted its row.
C28_ProvisionOrder ==
    [][\A q \in Procs :
        LET a == procs[q]
            b == procs'[q]
        IN /\ b.pc = "prov_flush" /\ a.pc # "prov_flush" =>
                  /\ a.pc = "alloc_commit"
                  /\ PortHeld(q)'
                  /\ b.stream_id = NULL /\ b.source_password = NULL
           /\ b.pc = "prov_assoc" /\ a.pc # "prov_assoc" =>
                  /\ a.pc = "prov_flush"
                  /\ b.port = a.port
                  /\ PortHeld(q)' /\ RowInserted(q)'
           /\ b.pc = "prov_configure" /\ a.pc # "prov_configure" =>
                  /\ a.pc = "prov_assoc"
                  /\ b = [a EXCEPT !.pc = "prov_configure"]
           /\ b.outcome # a.outcome /\ b.outcome # "none" => a.pc = "prov_configure"
           /\ CreateStreamInvoked(q) => PortHeld(q) /\ RowInserted(q)
      ]_vars
C28_Witness ==
    \E q \in Procs :
        /\ procs[q].pc = "prov_commit"
        /\ procs[q].outcome = "configured"
        /\ procs[q].stream_id = 2
        /\ procs[q].port > port_range_start


\* C29 (SpecResume): a suspended stream returns to status active: whenever a stream
\* is suspended, the same stream is active at some later time, with the port and
\* the passwords it had.
C29_SuspendedResumes ==
    \A s \in StreamIds : \A p \in Ports : \A w \in Secrets(TRUE) :
        (s \in DOMAIN streams /\ streams[s].status = SUSPENDED
            /\ streams[s].port = p /\ streams[s].source_password = w)
        ~> (s \in DOMAIN streams /\ streams[s].status = ACTIVE
              /\ streams[s].port = p /\ streams[s].source_password = w)
\* No step of any operation takes a suspended stream to another status than
\* suspended or terminated.
C29_NeverResumed ==
    [][\A s \in DOMAIN streams :
          streams[s].status = SUSPENDED =>
              streams'[s].status \in {SUSPENDED, TERMINATED}]_vars
\* The owner of a suspended stream has no second non-terminated stream.
C29_NoSecondStream ==
    \A s \in DOMAIN streams :
        streams[s].status = SUSPENDED =>
            LiveStreams(streams[s].user_id) = {s}
\* A suspended stream keeps its port and its passwords.
C29_SuspendedKeepsPortAndSecrets ==
    [][\A s \in DOMAIN streams :
          streams[s].status = SUSPENDED =>
              /\ streams'[s].port = streams[s].port
              /\ streams'[s].source_password = streams[s].source_password
              /\ streams'[s].admin_password = streams[s].admin_password]_vars


\* q is called in this step: its slot was free and holds a call afterwards.
Called(q, ops) ==
    /\ Idle(q)
    /\ procs'[q] # procs[q]
    /\ procs'[q].op \in ops
\* The step leaves every stream row and every port row as it was.
NoRowChanged == UNCHANGED <<streams, ports, nextId>>

\* C30 (SpecApi): suspend_stream or terminate_stream called with an id that no
\* stream row has returns False and changes no stream row and no port row: a
\* call goes on only with the id of an existing row.  Through the routes, a user
\* with no non-terminated stream gets 404 for suspend, terminate and stats, and
\* no row changes.
C30_NotFoundNoEffect ==
    [][\A q \in Procs :
        /\ Called(q, {"suspend", "terminate"}) =>
              \/ /\ procs'[q].stream_id \in DOMAIN streams
                 /\ procs'[q].pc \in {"susp_commit", "rel_select"}
                 /\ NoRowChanged
              \/ /\ procs'[q].pc = "done"
                 /\ procs'[q].res.kind = "false"
                 /\ procs'[q].res.why = "not_found"
                 /\ NoRowChanged
        /\ Called(q, {"suspend", "terminate", "suspend_my_stream",
                      "terminate_my_stream", "get_my_stream_stats"})
             /\ procs'[q].user_id # NULL
             /\ LiveStreams(procs'[q].user_id) = {} =>
                  /\ procs'[q].pc = "done"
                  /\ procs'[q].res = NotFound404
                  /\ NoRowChanged
      ]_vars
\* The terminate route has answered 404 to a user whose only stream is
\* terminated, while a port is allocated; suspend_stream has answered False for
\* an id without row while stream rows exist.
C30_Witness ==
    \E q \in Procs :
        /\ Returned(q, "terminate_my_stream")
        /\ procs[q].res = NotFound404
        /\ \E s \in DOMAIN streams :
              streams[s].user_id = procs[q].user_id /\ streams[s].status = TERMINATED
        /\ \E p \in Ports : ports[p].is_allocated
C30_WitnessService ==
    \E q \in Procs :
        /\ Returned(q, "suspend")
        /\ procs[q].res.why = "not_found"
        /\ streams # << >>


\* The update q was called with was for an own stream that can be updated, and no
\* commit raised a database error.
UpdateAccepted(q) ==
    /\ Returned(q, "update_stream")
    /\ procs[q].res.why \notin {"not_found", "conflict", "DatabaseError"}
\* The committed row of q's stream carries every value of q's request.
UpdateCommitted(q) ==
    /\ procs[q].stream_id \in DOMAIN streams
    /\ \A f \in DOMAIN procs[q].update_data :
          streams[procs[q].stream_id][f] = procs[q].update_data[f]
\* The request changes the value of a critical field of the row it found.
ChangesCritical(q) ==
    \E f \in {"bitrate", "max_listeners", "format", "icecast_config"} :
        f \in DOMAIN procs[q].update_data /\ procs[q].before[f] # procs[q].update_data[f]

\* C31 (SpecUpdate): Update commits the changed fields to the stream row before any
\* external reconfiguration is queued, records that a restart is required
\* exactly when the request changes the value of bitrate, max_listeners, format
\* or icecast_config, and the committed values stay whatever the queued task
\* does.
C31_UpdateCommitsThenReconfigures ==
    \A q \in Procs :
        UpdateAccepted(q) =>
            /\ UpdateCommitted(q)
            /\ procs[q].event.logged
            /\ procs[q].event.requires_restart = ChangesCritical(q)
\* The same of the requests served on a synchronous Session.
C31_OnSession ==
    \A q \in Procs :
        UpdateAccepted(q) /\ procs[q].session = "Session" =>
            /\ UpdateCommitted(q)
            /\ procs[q].event.logged
            /\ procs[q].event.requires_restart = ChangesCritical(q)
\* A task is queued only after the row was committed, and a task that runs
\* changes no row.
C31_CommitBeforeTask ==
    [][\A q \in Procs :
          /\ procs'[q].tasks # << >> /\ procs[q].tasks = << >> =>
                /\ procs[q].pc = "upd_event"
                /\ UpdateCommitted(q) /\ UpdateCommitted(q)'
          /\ Len(procs'[q].tasks) < Len(procs[q].tasks) => UNCHANGED streams
      ]_vars
C31_WitnessOnSession ==
    \E q \in Procs :
        /\ UpdateAccepted(q) /\ procs[q].session = "Session"
        /\ procs[q].event.requires_restart
        /\ procs[q].outcome = "restart_stream_on_cpp_service"


\* C32 (Spec): no step of Provision, Suspend or Terminate, nor of the allocate
\* and release calls they make, adds or deletes a port row; a port row changes
\* only by going from free to allocated, by going from allocated to free, or
\* while it is allocated: a free port stays as it is until it is allocated.
C32_PortSetFixed ==
    [][/\ DOMAIN ports' = DOMAIN ports
       /\ \A p \in DOMAIN ports :
             \/ ports'[p] = ports[p]
             \/ ~ports[p].is_allocated /\ ports'[p].is_allocated
             \/ ports[p].is_allocated /\ ~ports'[p].is_allocated
             \/ ports[p].is_allocated /\ ports'[p].is_allocated]_vars
\* The rows are those of the configured range.
C32_PortsAreTheRange == DOMAIN ports = Ports
\* A port that stays allocated changes in its stream reference only.
C32_AllocatedKeepsOwner ==
    [][\A p \in DOMAIN ports :
          ports[p].is_allocated /\ ports'[p].is_allocated =>
              ports'[p] = [ports[p] EXCEPT
                              !.allocated_to_stream_id = ports'[p].allocated_to_stream_id]
      ]_vars
C32_Witness ==
    /\ \E p \in Ports : ~ports[p].is_allocated /\ \E s \in DOMAIN streams :
            streams[s].port = p /\ streams[s].status = TERMINATED
    /\ \E p \in Ports : ports[p].is_allocated /\ ports[p].allocated_to_stream_id # NULL


\* The sessions of stream s that started within the last d days, and the number
\* of its samples recorded within the last d days.
SessionsWithin(s, d) ==
    {i \in DOMAIN streams[s].sessions : streams[s].sessions[i].started_at <= d}
RECURSIVE SamplesWithin(_, _)
SamplesWithin(s, d) ==
    IF d < 0 THEN 0 ELSE streams[s].monitoring_data[d] + SamplesWithin(s, d - 1)

\* C33 (SpecStats): for an existing stream and a window of d days the stats read
\* reports total_sessions equal to the number of the stream's sessions started
\* within the window and peak_listeners equal to their highest peak (0 without
\* such a session), and returns the newest samples of the window, at most 100,
\* newest first; for an id without stream row it returns an empty result.
C33_StatsOfWindow ==
    \A q \in Procs :
        Returned(q, "get_stream_stats") =>
            LET s == procs[q].stream_id
                d == procs[q].days
                stats == procs[q].stats
            IN IF s \notin DOMAIN streams
               THEN procs[q].res.kind = "empty" /\ stats = << >>
               ELSE /\ procs[q].res.kind = "stats"
                    /\ stats.total_sessions = Cardinality(SessionsWithin(s, d))
                    /\ \A i \in SessionsWithin(s, d) :
                          stats.peak_listeners >= streams[s].sessions[i].peak_listeners
                    /\ IF SessionsWithin(s, d) = {} THEN stats.peak_listeners = 0
                       ELSE \E i \in SessionsWithin(s, d) :
                               stats.peak_listeners = streams[s].sessions[i].peak_listeners
                    /\ Len(stats.recent_monitoring) = Min(100, SamplesWithin(s, d))
                    /\ \A k \in DOMAIN stats.recent_monitoring :
                          /\ stats.recent_monitoring[k] <= d
                          /\ \A l \in DOMAIN stats.recent_monitoring :
                                k < l => stats.recent_monitoring[k] <= stats.recent_monitoring[l]
                          /\ \A day \in 0 .. d :
                                day < stats.recent_monitoring[k] =>
                                    Cardinality({l \in DOMAIN stats.recent_monitoring :
                                                    stats.recent_monitoring[l] = day})
                                        = streams[s].monitoring_data[day]
C33_Witness ==
    \E q \in Procs :
        /\ Returned(q, "get_stream_stats")
        /\ procs[q].res.kind = "stats"
        /\ procs[q].days < MaxDay
        /\ Len(procs[q].stats.recent_monitoring) = 100
        /\ SamplesWithin(procs[q].stream_id, procs[q].days) > 100
        /\ procs[q].stats.total_sessions = 1
        /\ procs[q].stats.peak_listeners = 0
        /\ \E i \in DOMAIN streams[procs[q].stream_id].sessions :
              /\ streams[procs[q].stream_id].sessions[i].started_at > procs[q].days
              /\ streams[procs[q].stream_id].sessions[i].peak_listeners > 0
C33_WitnessUnknown ==
    \E q \in Procs :
        /\ Returned(q, "get_stream_stats")
        /\ procs[q].res.kind = "empty"
        /\ DOMAIN streams[1].sessions # {}


\* q's provision_stream has failed and its release_port commits in this step.
CompensatingRelease(q) ==
    /\ procs[q].op = "provision"
    /\ procs[q].pc = "rel_commit"
    /\ procs'[q].pc # "rel_commit"
    /\ ports[procs[q].port].is_allocated
    /\ ~ports'[procs[q].port].is_allocated
\* Port p belongs to a non-terminated stream of another user than user_id.
OwnedByOther(p, user_id) ==
    \E s \in DOMAIN streams :
        /\ streams[s].port = p
        /\ streams[s].status # TERMINATED
        /\ streams[s].user_id # user_id

\* C34 (SpecOnce): the port a failed Provision frees by its compensating release
\* is not, at that moment, the port of a non-terminated stream of another user.
C34_ReleaseSparesOthers ==
    [][\A q \in Procs :
          CompensatingRelease(q) => ~OwnedByOther(procs[q].port, procs[q].user_id)]_vars


\* C35 (SpecSeq): whenever terminate_stream returns True, the committed stream row
\* has status terminated and the stream's port is free in the pool, also when
\* the nested release_port failed and rolled the session back.
C35_SuccessMeansTerminated ==
    [][\A q \in Procs :
          TerminateReturns(q) /\ procs'[q].res.kind = "true" =>
             /\ procs[q].stream_id \in DOMAIN streams'
             /\ streams'[procs[q].stream_id].status = TERMINATED
             /\ procs[q].port \in DOMAIN ports' => ~ports'[procs[q].port].is_allocated
      ]_vars
\* The same of the calls whose release_port succeeded.
C35_WhenReleaseSucceeded ==
    [][\A q \in Procs :
          TerminateReturns(q) /\ procs'[q].res.kind = "true"
                              /\ procs'[q].res.why = "terminated" =>
             /\ streams'[procs[q].stream_id].status = TERMINATED
             /\ ~ports'[procs[q].port].is_allocated]_vars


\* The servers of a table that are both active and primary.
ActivePrimary(servers) ==
    {i \in DOMAIN servers : servers[i].is_active /\ servers[i].is_primary}
\* q's provision_stream has created a stream and returned it.
Created(q) ==
    /\ Returned(q, "provision")
    /\ procs[q].res.kind = "stream"
    /\ procs[q].res.why = "created"

\* C36 (SpecServers): create_stream is called on a server that is active and
\* primary and on no other; when the table has no such server or several, no
\* create_stream call is made and Provision commits the stream in status
\* provisioning, its port allocated to it, with configuration version and
\* last-configuration time as the row was inserted.
C36_OnlyTheActivePrimary ==
    \A q \in Procs :
        Created(q) =>
            LET servers == procs[q].servers
                row == streams[procs[q].res.id]
            IN /\ procs[q].target # NULL =>
                     /\ servers[procs[q].target].is_active
                     /\ servers[procs[q].target].is_primary
               /\ procs[q].outcome \in {"refused", "configured"} <=> procs[q].target # NULL
               /\ Cardinality(ActivePrimary(servers)) # 1 =>
                     /\ procs[q].target = NULL
                     /\ procs[q].outcome = "no_server"
                     /\ row.status = PROVISIONING
                     /\ row.config_version = 1
                     /\ row.last_config_update = NULL
                     /\ ports[row.port].is_allocated
                     /\ ports[row.port].allocated_to_stream_id = procs[q].res.id
C36_Witness ==
    \E q \in Procs :
        /\ Created(q)
        /\ Cardinality(ActivePrimary(procs[q].servers)) = 2
        /\ streams[procs[q].res.id].status = PROVISIONING
        /\ \E s \in DOMAIN streams : streams[s].config_version = 2
C36_WitnessNone ==
    \E q \in Procs :
        /\ Created(q)
        /\ ActivePrimary(procs[q].servers) = {}
        /\ \E i \in DOMAIN procs[q].servers : procs[q].servers[i].is_primary


\* The streams whose row is not terminated.
NonTerminated == {s \in DOMAIN streams : streams[s].status # TERMINATED}
\* No provision_stream and no terminate_stream call is in flight.
NoProvisionOrTerminate ==
    \A q \in InFlight : procs[q].op \notin {"provision", "terminate"}

\* C37 (SpecCalls): whenever no Provision and no Terminate call is in flight,
\* as many ports are allocated as there are streams that are not terminated.
C37_AllocatedEqualsLive ==
    NoProvisionOrTerminate =>
        Cardinality(AllocatedPorts) = Cardinality(NonTerminated)

====
